---- MODULE Spec2Model ----
(***************************************************************************)
(* Receipt OCR field extraction (ocr_module.py): line grouping, merchant   *)
(* and total extraction, the single-image pipeline and the batch runner.   *)
(*                                                                         *)
(* Strings are sequences of one-character strings (ASCII only).  Python's  *)
(* None is the empty tuple, a present value v is <<v>>.  Amounts are       *)
(* integer cents; vertical positions are integers scaled by YScale so that *)
(* the mean of four vertices and every running midpoint stay exact.        *)
(***************************************************************************)
EXTENDS Integers, Sequences, FiniteSets, TLC

VARIABLES
    pc,          \* position of the running function
    text_data,   \* group_text_lines: OCR detections <<bbox, text, conf>>
    lines,       \* group_text_lines: (y_mean, text) pairs, sorted by y
    gi,          \* group_text_lines: index of the next pair of `lines` to sweep
    merged,      \* group_text_lines: the lines emitted so far
    buffer,      \* group_text_lines: texts of the open cluster
    current_y,   \* group_text_lines: representative y of the open cluster
    text_lines,  \* the extractors' argument; extract_receipt_info: the grouped lines
    result,      \* the value returned by the running function, None before
    raised,      \* the exception the running function raised, None if none
    image,       \* extract_receipt_info: the decoded image
    cropped,     \* extract_receipt_info: detect_printed_area's return value
    processed,   \* extract_receipt_info: preprocess_image's return value
    ocr_data,    \* extract_receipt_info: reader.readtext's detections
    merchant,    \* extract_receipt_info: extract_merchant_name's return value
    total,       \* extract_receipt_info: extract_total_easyocr's return value
    listing,     \* process_folder: os.listdir's file names
    fi,          \* process_folder: index of the next name of `listing`
    results,     \* process_folder: the report, file name -> entry
    calls        \* process_folder: the calls made so far, <<file name, outcome>>

groupVars == <<text_data, lines, gi, merged, buffer, current_y>>
infoVars == <<image, cropped, processed, ocr_data, merchant, total>>
folderVars == <<listing, fi, results, calls>>
vars == <<pc, text_lines, result, raised, groupVars, infoVars, folderVars>>

None == <<>>
Some(v) == <<v>>

\* the variables of the functions a specification does not run
GroupIdle ==
    /\ text_data = <<>>
    /\ lines = <<>>
    /\ gi = 1
    /\ merged = <<>>
    /\ buffer = <<>>
    /\ current_y = None
InfoIdle ==
    /\ image = None
    /\ cropped = None
    /\ processed = None
    /\ ocr_data = None
    /\ merchant = None
    /\ total = None
FolderIdle ==
    /\ listing = <<>>
    /\ fi = 1
    /\ results = <<>>
    /\ calls = <<>>

----------------------------------------------------------------------------
(* Characters and the str methods the module uses *)

DigitChars == {"0", "1", "2", "3", "4", "5", "6", "7", "8", "9"}
UpperAlpha == <<"A", "B", "C", "D", "E", "F", "G", "H", "I", "J", "K", "L", "M",
                "N", "O", "P", "Q", "R", "S", "T", "U", "V", "W", "X", "Y", "Z">>
LowerAlpha == <<"a", "b", "c", "d", "e", "f", "g", "h", "i", "j", "k", "l", "m",
                "n", "o", "p", "q", "r", "s", "t", "u", "v", "w", "x", "y", "z">>
Range(s) == {s[i] : i \in DOMAIN s}
SpaceChars == {" ", "\t", "\n"}
WordChars == Range(UpperAlpha) \cup Range(LowerAlpha) \cup DigitChars \cup {"_"}

ToUpper == [c \in Range(LowerAlpha) |->
              UpperAlpha[CHOOSE i \in DOMAIN LowerAlpha : LowerAlpha[i] = c]]
ToLower == [c \in Range(UpperAlpha) |->
              LowerAlpha[CHOOSE i \in DOMAIN UpperAlpha : UpperAlpha[i] = c]]
UpperChar(c) == IF c \in DOMAIN ToUpper THEN ToUpper[c] ELSE c
LowerChar(c) == IF c \in DOMAIN ToLower THEN ToLower[c] ELSE c
Upper(s) == [i \in DOMAIN s |-> UpperChar(s[i])]
Lower(s) == [i \in DOMAIN s |-> LowerChar(s[i])]

RECURSIVE LStrip(_)
LStrip(s) == IF s # <<>> /\ Head(s) \in SpaceChars THEN LStrip(Tail(s)) ELSE s
RECURSIVE RStrip(_)
RStrip(s) ==
    IF s # <<>> /\ s[Len(s)] \in SpaceChars THEN RStrip(SubSeq(s, 1, Len(s) - 1)) ELSE s
Strip(s) == RStrip(LStrip(s))

\* sep.join(parts)
RECURSIVE Join(_, _)
Join(sep, parts) ==
    IF parts = <<>> THEN <<>>
    ELSE IF Len(parts) = 1 THEN parts[1]
    ELSE parts[1] \o sep \o Join(sep, Tail(parts))

\* `needle in s`
Contains(s, needle) ==
    \E i \in 0..(Len(s) - Len(needle)) : SubSeq(s, i + 1, i + Len(needle)) = needle

\* s.endswith(suffix)
EndsWith(s, suffix) ==
    /\ Len(suffix) <= Len(s)
    /\ SubSeq(s, Len(s) - Len(suffix) + 1, Len(s)) = suffix

Abs(x) == IF x < 0 THEN -x ELSE x

RECURSIVE SumSeq(_)
SumSeq(s) == IF s = <<>> THEN 0 ELSE Head(s) + SumSeq(Tail(s))

RECURSIVE Pow2(_)
Pow2(n) == IF n = 0 THEN 1 ELSE 2 * Pow2(n - 1)

----------------------------------------------------------------------------
(* group_text_lines *)

MaxDet == 3

\* Positions are kept as multiples of 1/YScale: a polygon has 4 vertices and a
\* sweep takes fewer than MaxDet midpoints.
YScale == 4 * Pow2(MaxDet)

\* "abs(y - current_y) < 8"
ProximityThreshold == 8

Box(top, bottom) == <<<<0, top>>, <<10, top>>, <<10, bottom>>, <<0, bottom>>>>

\* vertical centers 0, 7, 7.5, 8, 14, 22
BoxPool == {Box(0, 0), Box(6, 8), Box(7, 8), Box(8, 8), Box(14, 14), Box(20, 24)}
TextPool == {<<"A">>, <<" ", "B", "x", " ">>}
DetectionPool == {<<b, t, 90>> : b \in BoxPool, t \in TextPool}

RECURSIVE SeqsUpTo(_, _)
SeqsUpTo(S, n) ==
    IF n = 0 THEN {<<>>}
    ELSE LET shorter == SeqsUpTo(S, n - 1)
         IN shorter \cup {Append(s, x) : s \in {t \in shorter : Len(t) = n - 1}, x \in S}

\* ys = [point[1] for point in bbox]; y_mean = sum(ys) / len(ys)
YMean(bbox) ==
    LET ys == [i \in DOMAIN bbox |-> bbox[i][2]]
    IN (SumSeq(ys) * YScale) \div Len(ys)

\* lines.append((y_mean, text.strip()))
LinePair(det) == <<YMean(det[1]), Strip(det[2])>>

\* list.sort(key=lambda x: x[0]) is stable: equal keys keep their order
RECURSIVE InsertByY(_, _)
InsertByY(sorted, item) ==
    IF sorted = <<>> THEN <<item>>
    ELSE IF sorted[Len(sorted)][1] <= item[1] THEN Append(sorted, item)
    ELSE Append(InsertByY(SubSeq(sorted, 1, Len(sorted) - 1), item), sorted[Len(sorted)])
RECURSIVE SortByY(_)
SortByY(s) ==
    IF s = <<>> THEN <<>>
    ELSE InsertByY(SortByY(SubSeq(s, 1, Len(s) - 1)), s[Len(s)])

CollectLines(data) == SortByY([i \in DOMAIN data |-> LinePair(data[i])])

\* "current_y is None or abs(y - current_y) < 8"
JoinsCluster(cur, y) ==
    IF cur = None THEN TRUE ELSE Abs(y - cur[1]) < ProximityThreshold * YScale

NextClusterYLast(cur, y) == y

\* "current_y = y if current_y is None else (current_y + y) / 2"
NextClusterY(cur, y) == IF cur = None THEN y ELSE (cur[1] + y) \div 2

\* merged.append(" ".join(buffer))
Emit(out, buf) == Append(out, Join(<<" ">>, buf))

FlushDropsOpen(out, buf) == out

\* "if buffer: merged.append(...)"
Flush(out, buf) == IF buf # <<>> THEN Emit(out, buf) ELSE out

GroupInit ==
    /\ pc = "group_start"
    /\ text_data \in SeqsUpTo(DetectionPool, MaxDet)
    /\ lines = <<>>
    /\ gi = 1
    /\ merged = <<>>
    /\ buffer = <<>>
    /\ current_y = None
    /\ text_lines = <<>>
    /\ result = None
    /\ raised = None
    /\ InfoIdle
    /\ FolderIdle

GroupCollect ==
    /\ pc = "group_start"
    /\ lines' = CollectLines(text_data)
    /\ merged' = <<>>
    /\ buffer' = <<>>
    /\ current_y' = None
    /\ gi' = 1
    /\ pc' = "group_sweep"
    /\ UNCHANGED <<text_data, text_lines, result, raised, infoVars, folderVars>>

GroupJoin ==
    /\ pc = "group_sweep"
    /\ gi <= Len(lines)
    /\ JoinsCluster(current_y, lines[gi][1])
    /\ buffer' = Append(buffer, lines[gi][2])
    /\ current_y' = Some(NextClusterY(current_y, lines[gi][1]))
    /\ gi' = gi + 1
    /\ UNCHANGED <<pc, text_data, lines, merged, text_lines, result, raised, infoVars, folderVars>>

GroupSplit ==
    /\ pc = "group_sweep"
    /\ gi <= Len(lines)
    /\ ~JoinsCluster(current_y, lines[gi][1])
    /\ merged' = Emit(merged, buffer)
    /\ buffer' = <<lines[gi][2]>>
    /\ current_y' = Some(lines[gi][1])
    /\ gi' = gi + 1
    /\ UNCHANGED <<pc, text_data, lines, text_lines, result, raised, infoVars, folderVars>>

GroupReturn ==
    /\ pc = "group_sweep"
    /\ gi > Len(lines)
    /\ merged' = Flush(merged, buffer)
    /\ result' = Some(merged')
    /\ pc' = "group_done"
    /\ UNCHANGED <<text_data, lines, gi, buffer, current_y, text_lines, raised, infoVars, folderVars>>

\* the whole function: the sweep from index i with the loop's three locals
RECURSIVE Sweep(_, _, _, _, _)
Sweep(pairs, i, out, buf, cur) ==
    IF i > Len(pairs) THEN Flush(out, buf)
    ELSE IF JoinsCluster(cur, pairs[i][1])
         THEN Sweep(pairs, i + 1, out, Append(buf, pairs[i][2]),
                    Some(NextClusterY(cur, pairs[i][1])))
         ELSE Sweep(pairs, i + 1, Emit(out, buf), <<pairs[i][2]>>, Some(pairs[i][1]))

group_text_lines(data) == Sweep(CollectLines(data), 1, <<>>, <<>>, None)

GroupNext == GroupCollect \/ GroupJoin \/ GroupSplit \/ GroupReturn

SpecGroup == GroupInit /\ [][GroupNext]_vars

----------------------------------------------------------------------------
(* extract_merchant_name *)

MERCHANT_KEYWORDS == <<
    <<"T", "R", "A", "D", "E", "R", " ", "J", "O", "E">>,
    <<"W", "A", "L", "M", "A", "R", "T">>,
    <<"W", "H", "O", "L", "E", " ", "F", "O", "O", "D", "S">>,
    <<"C", "O", "S", "T", "C", "O">>,
    <<"S", "A", "F", "E", "W", "A", "Y">>,
    <<"K", "R", "O", "G", "E", "R">>,
    <<"T", "A", "R", "G", "E", "T">>,
    <<"C", "V", "S">>,
    <<"W", "A", "L", "G", "R", "E", "E", "N", "S">>,
    <<"M", "C", "D", "O", "N", "A", "L", "D">>,
    <<"S", "T", "A", "R", "B", "U", "C", "K", "S">>,
    <<"S", "U", "B", "W", "A", "Y">>,
    <<"S", "P", "A", "R">>,
    <<"W", "I", "N", "C", "O">>,
    <<"M", "O", "M", "I">>,
    <<"T", "O", "Y">>,
    <<"S", "T", "O", "R", "E">>,
    <<"M", "A", "R", "K", "E", "T">>,
    <<"S", "H", "O", "P">>
>>

\* "text_lines[:5]"
TopLines == 5
\* "len(upper) < 3"
MinNameLen == 3

\* re.fullmatch(r"\d+[\d\s\-/]*", s)
FullMatchNumeric(s) ==
    /\ s # <<>>
    /\ s[1] \in DigitChars
    /\ \A i \in 2..Len(s) : s[i] \in DigitChars \cup SpaceChars \cup {"-", "/"}

\* "len(upper) < 3 or re.fullmatch(...)": the line is skipped
Skipped(line) ==
    LET upper == Upper(line) IN
    IF Len(upper) < MinNameLen THEN TRUE ELSE FullMatchNumeric(upper)

\* "for keyword in MERCHANT_KEYWORDS: if keyword in upper"
HasKeyword(line) ==
    LET upper == Upper(line)
    IN \E k \in DOMAIN MERCHANT_KEYWORDS : Contains(upper, MERCHANT_KEYWORDS[k])

\* re.sub(r"[^\w\s&'-]", ' ', line).strip()
CleanName(line) ==
    Strip([i \in DOMAIN line |->
             IF line[i] \in WordChars \cup SpaceChars \cup {"&", "'", "-"}
             THEN line[i] ELSE " "])

Prefix(s, n) == SubSeq(s, 1, IF Len(s) < n THEN Len(s) ELSE n)

\* the loop body for enumerate index i - 1 (Python counts from 0), then the rest
RECURSIVE ScanMerchant(_, _)
ScanMerchant(top, i) ==
    IF i > Len(top) THEN None
    ELSE IF Skipped(top[i]) THEN ScanMerchant(top, i + 1)
    ELSE IF HasKeyword(top[i]) THEN Some(CleanName(top[i]))
    ELSE IF i = 1 THEN Some(CleanName(top[i]))
    ELSE ScanMerchant(top, i + 1)

extract_merchant_name_unsliced(tl) == ScanMerchant(tl, 1)

extract_merchant_name(tl) == ScanMerchant(Prefix(tl, TopLines), 1)

MaxMerchantLines == 6

L_RECEIPT == <<"R", "E", "C", "E", "I", "P", "T", " ", "#", "1", "2", "3">>
L_WALMART == <<"W", "A", "L", "M", "A", "R", "T", " ", "S", "U", "P", "E", "R",
               "C", "E", "N", "T", "E", "R">>
L_TOTAL == <<"T", "O", "T", "A", "L", " ", "$", "4", "5", ".", "6", "7">>
L_DIGITS == <<"9", "9", "9", "9", "9", "9", "9">>
L_SHORT == <<"A", "B">>
L_DASH == <<"-", "1", "2">>
L_JOES == <<"J", "o", "e", "'", "s", " ", "s", "h", "o", "p", "!">>

MerchantLinePool == {L_RECEIPT, L_WALMART, L_DIGITS, L_SHORT, L_DASH, L_JOES}

MerchantInit ==
    /\ pc = "merchant_start"
    /\ text_lines \in SeqsUpTo(MerchantLinePool, MaxMerchantLines)
    /\ result = None
    /\ raised = None
    /\ GroupIdle
    /\ InfoIdle
    /\ FolderIdle

ExtractMerchant ==
    /\ pc = "merchant_start"
    /\ result' = extract_merchant_name(text_lines)
    /\ pc' = "merchant_done"
    /\ UNCHANGED <<text_lines, raised, groupVars, infoVars, folderVars>>

MerchantNext == ExtractMerchant

SpecMerchant == MerchantInit /\ [][MerchantNext]_vars

----------------------------------------------------------------------------
(* extract_total_easyocr *)

WORD_TOTAL == <<"T", "O", "T", "A", "L">>

IsDigitAt(s, i) == IF i \in DOMAIN s THEN s[i] \in DigitChars ELSE FALSE
IsWordAt(s, i) == IF i \in DOMAIN s THEN s[i] \in WordChars ELSE FALSE

\* re.search(r"\bTOTAL\b", line, re.IGNORECASE), ignoring the word boundaries
HasTotalNoBoundary(line) ==
    \E i \in 1..(Len(line) - 4) : Upper(SubSeq(line, i, i + 4)) = WORD_TOTAL

\* re.search(r"\bTOTAL\b", line, re.IGNORECASE): \b holds where exactly one of
\* the two neighbouring positions holds a word character
HasTotalWord(line) ==
    \E i \in 1..(Len(line) - 4) :
        /\ Upper(SubSeq(line, i, i + 4)) = WORD_TOTAL
        /\ ~IsWordAt(line, i - 1)
        /\ ~IsWordAt(line, i + 5)

\* the greedy \d+ from position i, a digit: the last position of the digit run
RECURSIVE DigitRunEnd(_, _)
DigitRunEnd(s, i) == IF IsDigitAt(s, i + 1) THEN DigitRunEnd(s, i + 1) ELSE i

\* (\d+\.\d{2}) anchored at i: the match's last position, 0 when there is none.
\* A shorter \d+ is followed by a digit, never by the point: no backtracking.
AmountEndAt(s, i) ==
    IF ~IsDigitAt(s, i) THEN 0
    ELSE LET q == DigitRunEnd(s, i)
         IN IF q + 3 <= Len(s) /\ s[q + 1] = "." /\ IsDigitAt(s, q + 2) /\ IsDigitAt(s, q + 3)
            THEN q + 3 ELSE 0

\* \$?(\d+\.\d{2}) anchored at i: <<first and last position of group 1>>
MatchAmountAt(s, i) ==
    IF i \in DOMAIN s /\ s[i] = "$" /\ AmountEndAt(s, i + 1) > 0
    THEN Some(<<i + 1, AmountEndAt(s, i + 1)>>)
    ELSE IF AmountEndAt(s, i) > 0 THEN Some(<<i, AmountEndAt(s, i)>>)
    ELSE None

\* re.search from position i: the leftmost match
RECURSIVE SearchAmount(_, _)
SearchAmount(s, i) ==
    IF i > Len(s) THEN None
    ELSE IF MatchAmountAt(s, i) # None THEN MatchAmountAt(s, i)
    ELSE SearchAmount(s, i + 1)

DigitValue == [c \in DigitChars |->
                 CHOOSE n \in 0..9 : <<"0", "1", "2", "3", "4", "5", "6", "7", "8", "9">>[n + 1] = c]
RECURSIVE ParseInt(_)
ParseInt(ds) ==
    IF ds = <<>> THEN 0
    ELSE 10 * ParseInt(SubSeq(ds, 1, Len(ds) - 1)) + DigitValue[ds[Len(ds)]]

\* float(m.group(1)) for s[a..b] = digits "." digit digit, in cents
ParseAmount(s, a, b) == 100 * ParseInt(SubSeq(s, a, b - 3)) + ParseInt(SubSeq(s, b - 1, b))

\* re.findall from position i: matches left to right, each search resuming
\* after the previous match
RECURSIVE FindAmounts(_, _)
FindAmounts(s, i) ==
    LET m == SearchAmount(s, i) IN
    IF m = None THEN <<>>
    ELSE <<ParseAmount(s, m[1][1], m[1][2])>> \o FindAmounts(s, m[1][2] + 1)

\* pass 1: the first line with TOTAL on which the amount pattern matches
RECURSIVE TotalLinePass(_, _)
TotalLinePass(tl, i) ==
    IF i > Len(tl) THEN None
    ELSE IF HasTotalWord(tl[i]) /\ SearchAmount(tl[i], 1) # None
         THEN LET m == SearchAmount(tl[i], 1) IN Some(ParseAmount(tl[i], m[1][1], m[1][2]))
         ELSE TotalLinePass(tl, i + 1)

\* pass 2: all_amounts.extend(map(float, found)) over every line
RECURSIVE AllAmounts(_)
AllAmounts(tl) ==
    IF tl = <<>> THEN <<>>
    ELSE AllAmounts(SubSeq(tl, 1, Len(tl) - 1)) \o FindAmounts(tl[Len(tl)], 1)

FallbackFirst(all) == IF all # <<>> THEN Some(all[1]) ELSE None

\* "max(all_amounts) if all_amounts else None"
FallbackMax(all) ==
    IF all # <<>> THEN Some(CHOOSE x \in Range(all) : \A z \in Range(all) : z <= x) ELSE None

extract_total_easyocr(tl) ==
    IF TotalLinePass(tl, 1) # None THEN TotalLinePass(tl, 1)
    ELSE FallbackMax(AllAmounts(tl))

MaxTotalLines == 3

L_SUBTOTAL == <<"S", "U", "B", "T", "O", "T", "A", "L", " ", "9", "9", ".", "9", "9">>
L_TOTAL_ONLY == <<"T", "O", "T", "A", "L">>
L_TWO_AMOUNTS == <<"1", "2", ".", "5", "0", " ", "3", ".", "0", "0">>
L_ONE_AMOUNT == <<"1", "5", ".", "5", "0">>
L_TOTAL_LOWER == <<"T", "o", "t", "a", "l", ":", " ", "7", ".", "2", "5", "9", " ",
                   "$", "9", ".", "0", "0">>
L_DOTTED == <<"1", ".", "2", "3", "4", ".", "5", "6">>
L_ITEM == <<"I", "T", "E", "M", " ", "3">>

TotalLinePool == {L_RECEIPT, L_TOTAL, L_SUBTOTAL, L_TOTAL_ONLY, L_TWO_AMOUNTS, L_ONE_AMOUNT,
                  L_TOTAL_LOWER, L_DOTTED, L_ITEM}

TotalInit ==
    /\ pc = "total_start"
    /\ text_lines \in SeqsUpTo(TotalLinePool, MaxTotalLines)
    /\ result = None
    /\ raised = None
    /\ GroupIdle
    /\ InfoIdle
    /\ FolderIdle

ExtractTotal ==
    /\ pc = "total_start"
    /\ result' = extract_total_easyocr(text_lines)
    /\ pc' = "total_done"
    /\ UNCHANGED <<text_lines, raised, groupVars, infoVars, folderVars>>

TotalNext == ExtractTotal

SpecTotal == TotalInit /\ [][TotalNext]_vars

----------------------------------------------------------------------------
(* detect_printed_area, correct_skew, preprocess_image *)

\* An image is what was decoded and the operations applied to it since.  A call
\* either returns a value or raises; `env` says which library calls fault.
Ok(v) == [kind |-> "ok", value |-> v]
Raise(type, origin) == [kind |-> "raise", type |-> type, origin |-> origin]

Applied(img, op) == [img EXCEPT !.ops = Append(@, op)]
Gray(img) == [Applied(img, "gray") EXCEPT !.ndim = 2]

DetectEnvs ==
    [gray : BOOLEAN, threshold : BOOLEAN, contours : BOOLEAN, found : BOOLEAN, rect : BOOLEAN]

\* the try block of detect_printed_area
DetectBody(img, env) ==
    IF ~img.array THEN Raise("AttributeError", "detect_printed_area")
    ELSE IF img.ndim = 3 /\ env.gray THEN Raise("cv2.error", "detect_printed_area")
    ELSE IF env.threshold THEN Raise("cv2.error", "detect_printed_area")
    ELSE IF env.contours THEN Raise("cv2.error", "detect_printed_area")
    ELSE IF ~env.found THEN Ok(img)
    ELSE IF env.rect THEN Raise("cv2.error", "detect_printed_area")
    ELSE Ok(Applied(img, "crop"))

detect_printed_area_unguarded(img, env) == DetectBody(img, env)

\* "except Exception: ... return image"
detect_printed_area(img, env) ==
    IF DetectBody(img, env).kind = "raise" THEN Ok(img) ELSE DetectBody(img, env)

SkewEnvs ==
    [canny : BOOLEAN, hough : BOOLEAN, found : BOOLEAN, unpack : BOOLEAN,
     tilted : BOOLEAN, rotate : BOOLEAN]

\* the try block of correct_skew
SkewBody(img, env) ==
    IF ~img.array THEN Raise("cv2.error", "correct_skew")
    ELSE IF env.canny THEN Raise("cv2.error", "correct_skew")
    ELSE IF env.hough THEN Raise("cv2.error", "correct_skew")
    ELSE IF ~env.found THEN Ok(img)
    ELSE IF env.unpack THEN Raise("ValueError", "correct_skew")
    ELSE IF ~env.tilted THEN Ok(img)
    ELSE IF env.rotate THEN Raise("RuntimeError", "correct_skew")
    ELSE Ok(Applied(img, "rotate"))

\* "except Exception: ... return image"
correct_skew(img, env) ==
    IF SkewBody(img, env).kind = "raise" THEN Ok(img) ELSE SkewBody(img, env)

PreprocessEnvs ==
    [gray : BOOLEAN, skew : SkewEnvs, equalize : BOOLEAN, blur : BOOLEAN, close : BOOLEAN]

\* preprocess_image: no try block, so the first fault is the call's outcome
preprocess_image(img, env) ==
    IF ~img.array THEN Raise("TypeError", "preprocess_image")
    ELSE IF img.ndim = 3 /\ env.gray THEN Raise("cv2.error", "preprocess_image")
    ELSE LET gray == IF img.ndim = 3 THEN Gray(img) ELSE img
             deskewed == correct_skew(gray, env.skew)
         IN IF deskewed.kind = "raise" THEN deskewed
            ELSE IF env.equalize THEN Raise("cv2.error", "preprocess_image")
            ELSE IF env.blur THEN Raise("cv2.error", "preprocess_image")
            ELSE IF env.close THEN Raise("cv2.error", "preprocess_image")
            ELSE Ok(Applied(Applied(Applied(deskewed.value, "equalize"), "blur"), "close"))

----------------------------------------------------------------------------
(* extract_receipt_info *)

MaxOcrDet == 2

OcrBoxPool == {Box(0, 0), Box(6, 8), Box(20, 24)}
OcrTextPool == {L_WALMART, L_TOTAL, L_DIGITS, L_ONE_AMOUNT}
OcrPool == {<<b, t, 90>> : b \in OcrBoxPool, t \in OcrTextPool}

\* np.array(Image.open(image_path)): grayscale (2 axes) or colour (3 axes)
Decoded(ndim) == [array |-> TRUE, ndim |-> ndim, ops |-> <<>>]

FieldsMissingBoth(m, t) == m = None /\ t = None

\* "merchant is None or total is None"
FieldsMissing(m, t) == m = None \/ t = None

\* ValueError(f"OCR failed: merchant={merchant}, total={total}")
OcrFailed(m, t) ==
    [kind |-> "raise", type |-> "ValueError", origin |-> "extract_receipt_info",
     merchant |-> m, total |-> t]

InfoInit ==
    /\ pc = "info_start"
    /\ text_lines = <<>>
    /\ result = None
    /\ raised = None
    /\ GroupIdle
    /\ InfoIdle
    /\ FolderIdle

\* "if not os.path.exists(image_path): raise FileNotFoundError"
InfoMissing ==
    /\ pc = "info_start"
    /\ raised' = Some(Raise("FileNotFoundError", "extract_receipt_info"))
    /\ pc' = "info_done"
    /\ UNCHANGED <<text_lines, result, groupVars, infoVars, folderVars>>

InfoOpen ==
    /\ pc = "info_start"
    /\ \E ndim \in {2, 3} : image' = Some(Decoded(ndim))
    /\ pc' = "info_crop"
    /\ UNCHANGED <<text_lines, result, raised, groupVars, cropped, processed, ocr_data,
                   merchant, total, folderVars>>

\* Image.open raises on a file that is no image
InfoOpenFails ==
    /\ pc = "info_start"
    /\ raised' = Some(Raise("UnidentifiedImageError", "Image.open"))
    /\ pc' = "info_done"
    /\ UNCHANGED <<text_lines, result, groupVars, infoVars, folderVars>>

InfoCrop ==
    /\ pc = "info_crop"
    /\ \E env \in DetectEnvs :
          LET r == detect_printed_area(image[1], env) IN
          IF r.kind = "ok"
          THEN cropped' = Some(r.value) /\ raised' = raised /\ pc' = "info_preprocess"
          ELSE cropped' = cropped /\ raised' = Some(r) /\ pc' = "info_done"
    /\ UNCHANGED <<text_lines, result, groupVars, image, processed, ocr_data, merchant,
                   total, folderVars>>

InfoPreprocess ==
    /\ pc = "info_preprocess"
    /\ \E env \in PreprocessEnvs :
          LET r == preprocess_image(cropped[1], env) IN
          IF r.kind = "ok"
          THEN processed' = Some(r.value) /\ raised' = raised /\ pc' = "info_ocr"
          ELSE processed' = processed /\ raised' = Some(r) /\ pc' = "info_done"
    /\ UNCHANGED <<text_lines, result, groupVars, image, cropped, ocr_data, merchant,
                   total, folderVars>>

InfoOcr ==
    /\ pc = "info_ocr"
    /\ \E data \in SeqsUpTo(OcrPool, MaxOcrDet) : ocr_data' = Some(data)
    /\ pc' = "info_extract"
    /\ UNCHANGED <<text_lines, result, raised, groupVars, image, cropped, processed,
                   merchant, total, folderVars>>

\* reader.readtext raises
InfoOcrFails ==
    /\ pc = "info_ocr"
    /\ raised' = Some(Raise("RuntimeError", "reader.readtext"))
    /\ pc' = "info_done"
    /\ UNCHANGED <<text_lines, result, groupVars, infoVars, folderVars>>

InfoExtract ==
    /\ pc = "info_extract"
    /\ text_lines' = group_text_lines(ocr_data[1])
    /\ merchant' = extract_merchant_name(text_lines')
    /\ total' = extract_total_easyocr(text_lines')
    /\ pc' = "info_check"
    /\ UNCHANGED <<result, raised, groupVars, image, cropped, processed, ocr_data,
                   folderVars>>

InfoRaiseFields ==
    /\ pc = "info_check"
    /\ FieldsMissing(merchant, total)
    /\ raised' = Some(OcrFailed(merchant, total))
    /\ pc' = "info_done"
    /\ UNCHANGED <<text_lines, result, groupVars, infoVars, folderVars>>

InfoReturn ==
    /\ pc = "info_check"
    /\ ~FieldsMissing(merchant, total)
    /\ result' = Some(<<merchant, total, "easyocr">>)
    /\ pc' = "info_done"
    /\ UNCHANGED <<text_lines, raised, groupVars, infoVars, folderVars>>

InfoNext ==
    \/ InfoMissing
    \/ InfoOpen
    \/ InfoOpenFails
    \/ InfoCrop
    \/ InfoPreprocess
    \/ InfoOcr
    \/ InfoOcrFails
    \/ InfoExtract
    \/ InfoRaiseFields
    \/ InfoReturn

SpecInfo == InfoInit /\ [][InfoNext]_vars

----------------------------------------------------------------------------
(* process_folder *)

MaxFiles == 3

N_JPG == <<"a", ".", "j", "p", "g">>
N_PNG_UPPER == <<"b", ".", "P", "N", "G">>
N_JPEG_MIXED == <<"c", ".", "J", "p", "E", "g">>
N_TXT == <<"d", ".", "t", "x", "t">>
N_NO_DOT == <<"j", "p", "g">>
N_PNG_GZ == <<"e", ".", "p", "n", "g", ".", "g", "z">>
NamePool == {N_JPG, N_PNG_UPPER, N_JPEG_MIXED, N_TXT, N_NO_DOT, N_PNG_GZ}

\* os.listdir: each name once, in any order
Listings(n) == {l \in SeqsUpTo(NamePool, n) : \A i, j \in DOMAIN l : i # j => l[i] # l[j]}

IMAGE_SUFFIXES == {<<".", "j", "p", "g">>, <<".", "p", "n", "g">>, <<".", "j", "p", "e", "g">>}

IsImageFileCaseSensitive(name) == \E suffix \in IMAGE_SUFFIXES : EndsWith(name, suffix)

\* filename.lower().endswith(('.jpg', '.png', '.jpeg'))
IsImageFile(name) == \E suffix \in IMAGE_SUFFIXES : EndsWith(Lower(name), suffix)

\* what a call of extract_receipt_info(path) can come to
InfoOutcomes ==
    {Ok(<<Some(L_WALMART), Some(4567), "easyocr">>),
     Raise("FileNotFoundError", "extract_receipt_info"),
     Raise("cv2.error", "preprocess_image"),
     OcrFailed(Some(L_WALMART), None)}

\* the try/except around the call, then the entry built from the three names
EntryFor(out) ==
    IF out.kind = "ok"
    THEN [merchant_name |-> out.value[1], total_amount |-> out.value[2],
          ocr_engine_used |-> out.value[3]]
    ELSE [merchant_name |-> None, total_amount |-> None,
          ocr_engine_used |-> <<"error: ", out>>]

\* results[filename] = entry
Put(map, key, entry) ==
    [k \in DOMAIN map \cup {key} |-> IF k = key THEN entry ELSE map[k]]

FolderInit ==
    /\ pc = "folder_loop"
    /\ listing \in Listings(MaxFiles)
    /\ fi = 1
    /\ results = <<>>
    /\ calls = <<>>
    /\ text_lines = <<>>
    /\ result = None
    /\ raised = None
    /\ GroupIdle
    /\ InfoIdle

\* "if not filename.lower().endswith(...): continue"
FolderSkip ==
    /\ pc = "folder_loop"
    /\ fi <= Len(listing)
    /\ ~IsImageFile(listing[fi])
    /\ fi' = fi + 1
    /\ UNCHANGED <<pc, text_lines, result, raised, groupVars, infoVars, listing, results, calls>>

FolderProcess ==
    /\ pc = "folder_loop"
    /\ fi <= Len(listing)
    /\ IsImageFile(listing[fi])
    /\ \E out \in InfoOutcomes :
          /\ results' = Put(results, listing[fi], EntryFor(out))
          /\ calls' = Append(calls, <<listing[fi], out>>)
    /\ fi' = fi + 1
    /\ UNCHANGED <<pc, text_lines, result, raised, groupVars, infoVars, listing>>

\* json.dump(results, f) into ocr_results.json, then "return results"
FolderReturn ==
    /\ pc = "folder_loop"
    /\ fi > Len(listing)
    /\ result' = Some(results)
    /\ pc' = "folder_done"
    /\ UNCHANGED <<text_lines, raised, groupVars, infoVars, folderVars>>

\* open("ocr_results.json", "w") raises
FolderWriteFails ==
    /\ pc = "folder_loop"
    /\ fi > Len(listing)
    /\ raised' = Some(Raise("OSError", "open"))
    /\ pc' = "folder_done"
    /\ UNCHANGED <<text_lines, result, groupVars, infoVars, folderVars>>

FolderNext == FolderSkip \/ FolderProcess \/ FolderReturn \/ FolderWriteFails

SpecFolder == FolderInit /\ [][FolderNext]_vars

----------------------------------------------------------------------------
(* Properties of group_text_lines *)

Count(s, x) == Cardinality({i \in DOMAIN s : s[i] = x})
IsPermutation(s, t) ==
    /\ Len(s) = Len(t)
    /\ \A x \in Range(s) \cup Range(t) : Count(s, x) = Count(t, x)
IsSortedByY(s) == \A i \in 1..(Len(s) - 1) : s[i][1] <= s[i + 1][1]
MinOf(S) == CHOOSE x \in S : \A z \in S : x <= z
MaxOf(S) == CHOOSE x \in S : \A z \in S : z <= x

\* f assigns each swept pair the output line that holds it: onto, ascending,
\* and each output line is the joined run of the texts assigned to it
IsLineAssignment(f, pairs, out) ==
    /\ \A i \in 1..(Len(pairs) - 1) : f[i] <= f[i + 1]
    /\ \A k \in DOMAIN out :
          LET members == {i \in DOMAIN pairs : f[i] = k}
          IN /\ members # {}
             /\ out[k] = Join(<<" ">>, [j \in 1..Cardinality(members) |->
                                          pairs[MinOf(members) + j - 1][2]])

\* C5: once group_text_lines has returned, `lines` is the input's (center, text)
\* pairs in ascending order of vertical center, every pair lies in exactly one
\* returned line, each returned line is the joined contiguous run of the pairs
\* it holds, the returned lines are in ascending vertical order, and no pair
\* (the last open cluster included) is missing.
C5_GroupPartitions ==
    pc = "group_done" =>
        /\ IsPermutation(lines, [i \in DOMAIN text_data |-> LinePair(text_data[i])])
        /\ IsSortedByY(lines)
        /\ result = Some(merged)
        /\ \E f \in [DOMAIN lines -> DOMAIN merged] : IsLineAssignment(f, lines, merged)

C5_Witness ==
    /\ pc = "group_done"
    /\ Len(merged) >= 2
    /\ Len(lines) > Len(merged)
    /\ \E i \in 1..(Len(text_data) - 1) : YMean(text_data[i][1]) > YMean(text_data[i + 1][1])

Sweeping == pc = "group_sweep" /\ gi <= Len(lines) /\ current_y # None
Joined == buffer' = Append(buffer, lines[gi][2]) /\ merged' = merged
StartedNewLine ==
    merged' = Append(merged, Join(<<" ">>, buffer)) /\ buffer' = <<lines[gi][2]>>
Near(y, z) == Abs(y - z) < ProximityThreshold * YScale
Far(y, z) == Abs(y - z) > ProximityThreshold * YScale

\* C6 as stated: whenever the sweep handles a detection, every earlier detection
\* whose center is less than 8 away lies in the open cluster and the detection
\* joins it; and a detection more than 8 away from the running midpoint starts
\* a new line.
C6_AsStated ==
    [][Sweeping =>
         LET y == lines[gi][1] IN
         /\ \A j \in 1..(gi - 1) :
               Near(y, lines[j][1]) => (j >= gi - Len(buffer) /\ Joined)
         /\ Far(y, current_y[1]) => StartedNewLine]_vars

\* C6 amended: a detection less than 8 away from the running midpoint joins the
\* open cluster, whose representative becomes the midpoint of the prior
\* representative and the joined center; so a detection less than 8 away from
\* the first detection of the open cluster joins it; and a detection more than
\* 8 away from the running midpoint starts a new line with its own center as
\* representative.
C6_MidpointRule ==
    [][Sweeping =>
         LET y == lines[gi][1]
             first == lines[gi - Len(buffer)][1]
         IN
         /\ Near(y, current_y[1]) =>
               (Joined /\ current_y' # None /\ 2 * current_y'[1] = current_y[1] + y)
         /\ Near(y, first) => Joined
         /\ Far(y, current_y[1]) => (StartedNewLine /\ current_y' = Some(y))]_vars

\* a detection has just started a new line although the detection right above
\* it is less than 8 away
C6_Witness ==
    /\ pc = "group_sweep"
    /\ gi > 2
    /\ merged # <<>>
    /\ Len(buffer) = 1
    /\ Near(lines[gi - 1][1], lines[gi - 2][1])

----------------------------------------------------------------------------
(* Properties of extract_merchant_name *)

\* "consists solely of digits, space, hyphen, slash"
SolelyNumeric(line) == \A i \in DOMAIN line : line[i] \in DigitChars \cup {" ", "-", "/"}

\* "survives the filter": length at least 3 and not solely digits/space/hyphen/slash
Survives(line) == Len(line) >= 3 /\ ~SolelyNumeric(line)

TopOf(tl) == [i \in 1..(IF Len(tl) < 5 THEN Len(tl) ELSE 5) |-> tl[i]]

\* C1 as stated: if some surviving line among the first 5 contains a keyword,
\* the result is the cleaned text of the first such line, even when an earlier
\* surviving line has no keyword.
C1_KeywordPriority ==
    pc = "merchant_done" =>
        LET top == TopOf(text_lines)
            hits == {i \in DOMAIN top : Survives(top[i]) /\ HasKeyword(top[i])}
        IN hits # {} => result = Some(CleanName(top[MinOf(hits)]))

\* C2 as stated: if no surviving line among the first 5 contains a keyword but
\* some line survives, the result is the cleaned text of the first surviving
\* line, also when the line at index 0 was filtered out.
C2_FallbackFirstSurvivor ==
    pc = "merchant_done" =>
        LET top == TopOf(text_lines)
            alive == {i \in DOMAIN top : Survives(top[i])}
        IN (alive # {} /\ \A i \in alive : ~HasKeyword(top[i]))
               => result = Some(CleanName(top[MinOf(alive)]))

\* C10 as stated: the result is none when each of the first 5 lines has fewer
\* than 3 characters after stripping or consists solely of digits, space,
\* hyphen and slash.
C10_AsStated ==
    pc = "merchant_done" =>
        ((\A i \in DOMAIN TopOf(text_lines) :
              Len(Strip(text_lines[i])) < 3 \/ SolelyNumeric(text_lines[i]))
            => result = None)

\* a line whose upper-cased text has fewer than 3 characters, unstripped, or
\* one that starts with a digit and holds only digits, whitespace, hyphens and
\* slashes
Dropped(line) ==
    \/ Len(Upper(line)) < 3
    \/ /\ line[1] \in DigitChars
       /\ \A i \in DOMAIN line : line[i] \in DigitChars \cup SpaceChars \cup {"-", "/"}

\* C10 amended: the result is none when each of the first 5 lines has an
\* upper-cased text of fewer than 3 characters (unstripped) or starts with a
\* digit and consists solely of digits, whitespace, hyphens and slashes,
\* whatever the lines after the fifth contain.
C10_AllDroppedGivesNone ==
    pc = "merchant_done" =>
        ((\A i \in DOMAIN TopOf(text_lines) : Dropped(text_lines[i])) => result = None)

C10_Witness ==
    /\ pc = "merchant_done"
    /\ Len(text_lines) > 5
    /\ \A i \in 1..5 : Dropped(text_lines[i])
    /\ text_lines[1] = L_DIGITS
    /\ HasKeyword(text_lines[6])
    /\ result = None

----------------------------------------------------------------------------
(* Properties of extract_total_easyocr *)

\* s[a..b] is amount-shaped: one or more digits, a point, two digits
IsAmountSpan(s, a, b) ==
    /\ a <= b - 3
    /\ \A k \in a..(b - 3) : s[k] \in DigitChars
    /\ s[b - 2] = "."
    /\ s[b - 1] \in DigitChars
    /\ s[b] \in DigitChars
AmountSpans(s) == {sp \in (DOMAIN s) \X (DOMAIN s) : IsAmountSpan(s, sp[1], sp[2])}

\* the leftmost amount-shaped substring at or after position i, taken with all
\* the digits that follow its first one
LeftmostSpan(s, i) ==
    LET later == {sp \in AmountSpans(s) : sp[1] >= i}
    IN CHOOSE sp \in later : \A other \in later : sp[1] <= other[1]
FirstAmount(s) ==
    IF AmountSpans(s) = {} THEN None
    ELSE LET sp == LeftmostSpan(s, 1) IN Some(ParseAmount(s, sp[1], sp[2]))

\* the standalone word TOTAL, in any case, with no word character on either side
StandaloneTotal(s) ==
    \E i \in 1..(Len(s) - 4) :
        /\ Upper(SubSeq(s, i, i + 4)) = WORD_TOTAL
        /\ (i = 1 \/ s[i - 1] \notin WordChars)
        /\ (i + 4 = Len(s) \/ s[i + 5] \notin WordChars)

\* C3 as stated: if some line contains the standalone word TOTAL, the result is
\* the first amount on the first such line (none when that line has no amount)
\* and no other line is consulted.
C3_AsStated ==
    pc = "total_done" =>
        LET marked == {i \in DOMAIN text_lines : StandaloneTotal(text_lines[i])}
        IN marked # {} => result = FirstAmount(text_lines[MinOf(marked)])

\* C3 amended: if some line contains both the standalone word TOTAL and an
\* amount, the result is the first amount on the first such line, whatever the
\* other lines hold; a TOTAL line without an amount is passed over.
C3_TotalLineFirst ==
    pc = "total_done" =>
        LET priced == {i \in DOMAIN text_lines :
                          StandaloneTotal(text_lines[i]) /\ AmountSpans(text_lines[i]) # {}}
        IN priced # {} => result = FirstAmount(text_lines[MinOf(priced)])

\* the chosen TOTAL line follows a TOTAL line without an amount and a line
\* with a larger amount
C3_Witness ==
    /\ pc = "total_done"
    /\ Len(text_lines) = 3
    /\ text_lines[1] = L_SUBTOTAL
    /\ text_lines[2] = L_TOTAL_ONLY
    /\ text_lines[3] = L_TOTAL
    /\ result = Some(4567)

AmountValues(s) == {ParseAmount(s, sp[1], sp[2]) : sp \in AmountSpans(s)}

\* C4 as stated: when no line contains the standalone word TOTAL, the result is
\* the maximum over all amount-shaped substrings of all lines, and none exactly
\* when there is no amount-shaped substring.
C4_AsStated ==
    (pc = "total_done" /\ \A i \in DOMAIN text_lines : ~StandaloneTotal(text_lines[i])) =>
        LET values == UNION {AmountValues(text_lines[i]) : i \in DOMAIN text_lines}
        IN /\ result = None <=> values = {}
           /\ values # {} => result = Some(MaxOf(values))

\* the amounts met reading s from position i, each reading resuming right
\* after the amount before it
RECURSIVE ScannedValues(_, _)
ScannedValues(s, i) ==
    IF {sp \in AmountSpans(s) : sp[1] >= i} = {} THEN {}
    ELSE LET sp == LeftmostSpan(s, i)
         IN {ParseAmount(s, sp[1], sp[2])} \cup ScannedValues(s, sp[2] + 1)

\* C4 amended: when no line contains the standalone word TOTAL, the result is
\* the maximum over the amounts matched left to right without overlap in each
\* line, and none exactly when no line has an amount-shaped substring.
C4_FallbackMaximum ==
    (pc = "total_done" /\ \A i \in DOMAIN text_lines : ~StandaloneTotal(text_lines[i])) =>
        LET values == UNION {ScannedValues(text_lines[i], 1) : i \in DOMAIN text_lines}
        IN /\ result = None <=> \A i \in DOMAIN text_lines : AmountSpans(text_lines[i]) = {}
           /\ values # {} => result = Some(MaxOf(values))

\* the maximum is not the first amount met and comes from another line than it
C4_Witness ==
    /\ pc = "total_done"
    /\ Len(text_lines) = 3
    /\ text_lines[1] = L_TWO_AMOUNTS
    /\ text_lines[2] = L_ITEM
    /\ text_lines[3] = L_ONE_AMOUNT
    /\ result = Some(1550)

----------------------------------------------------------------------------
(* Properties of extract_receipt_info and of the image stages *)

\* C7: once extract_receipt_info has ended it has either returned or raised,
\* never both; a returned triple holds a merchant name and a total that are
\* both present and the engine identifier "easyocr"; and whenever the merchant
\* extractor or the total extractor returns none on the grouped lines, the call
\* raises the ValueError that carries both extractors' values.
C7_NoPartialResult ==
    pc = "info_done" =>
        /\ (result = None) # (raised = None)
        /\ result # None =>
              /\ result[1][1] # None
              /\ result[1][2] # None
              /\ result[1][3] = "easyocr"
              /\ result[1][1] = extract_merchant_name(group_text_lines(ocr_data[1]))
              /\ result[1][2] = extract_total_easyocr(group_text_lines(ocr_data[1]))
        /\ ocr_data # None =>
              LET m == extract_merchant_name(group_text_lines(ocr_data[1]))
                  t == extract_total_easyocr(group_text_lines(ocr_data[1]))
              IN (m = None \/ t = None) =>
                     /\ raised # None
                     /\ raised[1].type = "ValueError"
                     /\ raised[1].merchant = m
                     /\ raised[1].total = t

\* the failure carries the merchant that did resolve
C7_Witness ==
    /\ pc = "info_done"
    /\ raised # None
    /\ raised[1].type = "ValueError"
    /\ raised[1].merchant = Some(L_WALMART)
    /\ raised[1].total = None
    /\ result = None

BestEffortStages == {"detect_printed_area", "correct_skew", "preprocess_image"}

\* the image a stage is handed, and a value that is no array in its place
InputsLike(img) == {img, [img EXCEPT !.array = FALSE]}

----------------------------------------------------------------------------
(* Properties of process_folder *)

\* the name ends in .jpg, .jpeg or .png, in any case
EndsInImageExtension(name) ==
    \/ Len(name) >= 4 /\ Lower(SubSeq(name, Len(name) - 3, Len(name))) \in
           {<<".", "j", "p", "g">>, <<".", "p", "n", "g">>}
    \/ Len(name) >= 5 /\ Lower(SubSeq(name, Len(name) - 4, Len(name))) =
           <<".", "j", "p", "e", "g">>

\* the visited image files, in listing order
RECURSIVE ImagesAmong(_, _)
ImagesAmong(l, n) ==
    IF n = 0 THEN <<>>
    ELSE IF EndsInImageExtension(l[n]) THEN Append(ImagesAmong(l, n - 1), l[n])
    ELSE ImagesAmong(l, n - 1)

\* C8: at every point of the run the report has exactly one entry for each
\* visited file whose name ends in .jpg, .jpeg or .png (any case) and none for
\* any other file; each entry is the one its own call's outcome gives: the
\* returned triple, or null merchant and total with an error string as engine;
\* no pipeline failure ends the run; and the run ends only after the last file.
C8_FailuresIsolated ==
    LET images == ImagesAmong(listing, fi - 1) IN
    /\ DOMAIN results = Range(images)
    /\ [k \in DOMAIN calls |-> calls[k][1]] = images
    /\ \A k \in DOMAIN calls :
          LET entry == results[calls[k][1]]
              out == calls[k][2]
          IN IF out.kind = "ok"
             THEN /\ entry.merchant_name = out.value[1]
                  /\ entry.total_amount = out.value[2]
                  /\ entry.ocr_engine_used = "easyocr"
             ELSE /\ entry.merchant_name = None
                  /\ entry.total_amount = None
                  /\ entry.ocr_engine_used = <<"error: ", out>>
    /\ raised # None => raised[1].origin = "open"
    /\ pc = "folder_done" =>
          /\ fi = Len(listing) + 1
          /\ raised = None => result = Some(results)

\* a failed file, then a successful one, and a file that is no image
C8_Witness ==
    /\ pc = "folder_done"
    /\ result # None
    /\ Len(listing) = 3
    /\ Len(calls) = 2
    /\ calls[1][2].kind = "raise"
    /\ calls[2][2].kind = "ok"
    /\ calls[2][1] = N_PNG_UPPER

====
